---------------------------- MODULE Spec2Model ----------------------------
(***************************************************************************)
(* markdown2html.py: the line translator (process_markdown_line), the      *)
(* list-block accumulator and the command-line driver (main).              *)
(*                                                                         *)
(* A Python str is a sequence of one-character strings; "<ul>" is          *)
(* <<"<", "u", "l", ">">>.  Python's None is the value None below, which   *)
(* is no character sequence.                                               *)
(***************************************************************************)
EXTENDS Integers, Sequences, FiniteSets, TLC

VARIABLES
  argv,        \* sys.argv
  md_kind,     \* what argv[1] names: "file", "dir" or "absent"
  out_file,    \* content of the file argv[2] names, or NoFile
  stderr,      \* what has been printed to standard error
  pc,          \* position of main
  exit_code,   \* process exit status, or -1 while running
  lines,       \* main: lines
  idx,         \* main: index of the next element of lines in the for loop
  html_lines,  \* main: html_lines
  list_type,   \* main: list_type
  arg_line,    \* process_markdown_line called on its own: the argument
  ret,         \* ... its return values, in call order
  calls        \* ... number of calls made

vars == << argv, md_kind, out_file, stderr, pc, exit_code, lines, idx,
           html_lines, list_type, arg_line, ret, calls >>

mainVars == << argv, md_kind, out_file, stderr, pc, exit_code, lines, idx,
               html_lines, list_type >>

callVars == << arg_line, ret, calls >>

\* ---------------------------------------------------------------------
\* Bounds of the model
\* ---------------------------------------------------------------------
MaxArgc == 4      \* len(sys.argv) ranges over 1..MaxArgc
MaxLines == 3     \* input files hold up to MaxLines lines
MaxHashes == 7    \* heading-like lines start with up to MaxHashes '#'
MaxTokens == 3    \* inline lines are made of up to MaxTokens tokens
MaxMarks == 5     \* bold/emphasis lines are made of up to MaxMarks markers
MaxHtml == 3      \* converted lines are made of up to MaxHtml pieces
MaxParens == 4    \* removal lines are made of up to MaxParens pieces

\* ---------------------------------------------------------------------
\* Python values
\* ---------------------------------------------------------------------
None == << "None" >>

\* bool(v) for v a str or None.
Truthy(v) == v # None /\ v # << >>

\* A returned value: a tuple of values, or a str.
PyTuple(items) == [kind |-> "tuple", items |-> items]

PyStr(text) == [kind |-> "str", items |-> text]

\* What iterating over a value yields: the items of a tuple, the
\* one-character strings of a str.
Iterate(v) ==
  IF v.kind = "tuple" THEN v.items
  ELSE [k \in 1..Len(v.items) |-> << v.items[k] >>]

\* "a, b = v" succeeds when v yields exactly two items and raises
\* ValueError otherwise.
UnpackOk(v) == Len(Iterate(v)) = 2

Whitespace == { " ", "\t", "\n", "\r", "\f" }

IsSpace(ch) == ch \in Whitespace

\* str.rstrip(): the text without its trailing whitespace.
RECURSIVE rstrip(_)
rstrip(text) ==
  IF text = << >> THEN << >>
  ELSE IF IsSpace(text[Len(text)])
       THEN rstrip(SubSeq(text, 1, Len(text) - 1))
       ELSE text

\* str.strip() is empty: every character is whitespace.
StripIsEmpty(text) == \A k \in 1..Len(text) : IsSpace(text[k])

\* '\n'.join(items)
RECURSIVE Join(_)
Join(items) ==
  IF items = << >> THEN << >>
  ELSE IF Len(items) = 1 THEN items[1]
  ELSE items[1] \o << "\n" >> \o Join(Tail(items))

\* The literal texts of the program.
TagUl == << "u", "l" >>
TagOl == << "o", "l" >>
TagNewline == << "n", "e", "w", "l", "i", "n", "e" >>
OpenUl == << "<", "u", "l", ">" >>
OpenOl == << "<", "o", "l", ">" >>
ParaLine == << "<", "p", ">" >>
LiOpen == << "<", "l", "i", ">" >>
LiClose == << "<", "/", "l", "i", ">" >>
BOpen == << "<", "b", ">" >>
BClose == << "<", "/", "b", ">" >>
EmOpen == << "<", "e", "m", ">" >>
EmClose == << "<", "/", "e", "m", ">" >>

\* f"</{list_type}>"
CloseTag(lt) == << "<", "/" >> \o lt \o << ">" >>

\* str(n) for a heading level n, one decimal digit.
Digit(n) == << "0", "1", "2", "3", "4", "5", "6", "7", "8", "9" >>[n + 1]

\* ---------------------------------------------------------------------
\* hashlib.md5(text.encode()).hexdigest()  (RFC 1321), on 32-bit words
\* kept as <<high 16 bits, low 16 bits>> so that no sum leaves the
\* machine's integer range.
\* ---------------------------------------------------------------------
Ascii ==
  << " ", "!", "\"", "#", "$", "%", "&", "'", "(", ")", "*", "+", ",", "-",
     ".", "/", "0", "1", "2", "3", "4", "5", "6", "7", "8", "9", ":", ";",
     "<", "=", ">", "?", "@", "A", "B", "C", "D", "E", "F", "G", "H", "I",
     "J", "K", "L", "M", "N", "O", "P", "Q", "R", "S", "T", "U", "V", "W",
     "X", "Y", "Z", "[", "\\", "]", "^", "_", "backtick", "a", "b", "c", "d", "e",
     "f", "g", "h", "i", "j", "k", "l", "m", "n", "o", "p", "q", "r", "s",
     "t", "u", "v", "w", "x", "y", "z", "{", "|", "}", "~" >>

\* str.encode(): the UTF-8 bytes of the text; the characters of the model are
\* ASCII (one byte each), the tab being byte 9.
Ord(ch) ==
  IF ch = "\t" THEN 9
  ELSE 31 + (CHOOSE k \in 1..Len(Ascii) : Ascii[k] = ch)

Encode(text) == [k \in 1..Len(text) |-> Ord(text[k])]

HexDigits ==
  << "0", "1", "2", "3", "4", "5", "6", "7",
     "8", "9", "a", "b", "c", "d", "e", "f" >>

Pow2(n) == 2 ^ n

\* The four auxiliary functions F, G, H, I of RFC 1321 on single bits.
Md5Aux(r, b, c, d) ==
  CASE r = 0 -> IF b = 1 THEN c ELSE d
    [] r = 1 -> IF d = 1 THEN b ELSE c
    [] r = 2 -> (b + c + d) % 2
    [] r = 3 -> (c + (IF b = 1 \/ d = 0 THEN 1 ELSE 0)) % 2

\* The same functions on the low n bits of b, c and d.
RECURSIVE Md5AuxBits(_, _, _, _, _)
Md5AuxBits(r, b, c, d, n) ==
  IF n = 0 THEN 0
  ELSE Md5Aux(r, b % 2, c % 2, d % 2)
         + 2 * Md5AuxBits(r, b \div 2, c \div 2, d \div 2, n - 1)

Md5Aux32(r, b, c, d) ==
  << Md5AuxBits(r, b[1], c[1], d[1], 16), Md5AuxBits(r, b[2], c[2], d[2], 16) >>

\* Addition modulo 2^32.
Add32(x, y) ==
  LET lo == x[2] + y[2]
      hi == x[1] + y[1] + (lo \div 65536)
  IN  << hi % 65536, lo % 65536 >>

\* Rotation to the left by n bits, 0 <= n < 32.
Rotl32(x, n) ==
  LET w == IF n >= 16 THEN << x[2], x[1] >> ELSE x
      m == n % 16
  IN  << (w[1] % Pow2(16 - m)) * Pow2(m) + (w[2] \div Pow2(16 - m)),
         (w[2] % Pow2(16 - m)) * Pow2(m) + (w[1] \div Pow2(16 - m)) >>

Md5Sine ==
  <<
    <<55146, 42104>>, <<59591, 46934>>, <<9248, 28891>>, <<49597, 52974>>,
    <<62844, 4015>>, <<18311, 50730>>, <<43056, 17939>>, <<64838, 38145>>,
    <<27008, 39128>>, <<35652, 63407>>, <<65535, 23473>>, <<35164, 55230>>,
    <<27536, 4386>>, <<64920, 29075>>, <<42617, 17294>>, <<18868, 2081>>,
    <<63006, 9570>>, <<49216, 45888>>, <<9822, 23121>>, <<59830, 51114>>,
    <<54831, 4189>>, <<580, 5203>>, <<55457, 59009>>, <<59347, 64456>>,
    <<8673, 52710>>, <<49975, 2006>>, <<62677, 3463>>, <<17754, 5357>>,
    <<43491, 59653>>, <<64751, 41976>>, <<26479, 729>>, <<36138, 19594>>,
    <<65530, 14658>>, <<34673, 63105>>, <<28061, 24866>>, <<64997, 14348>>,
    <<42174, 59972>>, <<19422, 53161>>, <<63163, 19296>>, <<48831, 48240>>,
    <<10395, 32454>>, <<60065, 10234>>, <<54511, 12421>>, <<1160, 7429>>,
    <<55764, 53305>>, <<59099, 39397>>, <<8098, 31992>>, <<50348, 22117>>,
    <<62505, 8772>>, <<17194, 65431>>, <<43924, 9127>>, <<64659, 41017>>,
    <<25947, 22979>>, <<36620, 52370>>, <<65519, 62589>>, <<34180, 24017>>,
    <<28584, 32335>>, <<65068, 59104>>, <<41729, 17172>>, <<19976, 4513>>,
    <<63315, 32386>>, <<48442, 62005>>, <<10967, 53947>>, <<60294, 54161>>
  >>

Md5Shift ==
  << 7, 12, 17, 22, 7, 12, 17, 22, 7, 12, 17, 22, 7, 12, 17, 22,
     5, 9, 14, 20, 5, 9, 14, 20, 5, 9, 14, 20, 5, 9, 14, 20,
     4, 11, 16, 23, 4, 11, 16, 23, 4, 11, 16, 23, 4, 11, 16, 23,
     6, 10, 15, 21, 6, 10, 15, 21, 6, 10, 15, 21, 6, 10, 15, 21 >>

\* Index of the message word used by operation k (0 <= k < 64).
Md5Word(k) ==
  CASE k < 16 -> k
    [] k >= 16 /\ k < 32 -> (5 * k + 1) % 16
    [] k >= 32 /\ k < 48 -> (3 * k + 5) % 16
    [] k >= 48 -> (7 * k) % 16

Md5InitState ==
  << <<26437, 8961>>, <<61389, 43913>>, <<39098, 56574>>, <<4146, 21622>> >>

\* The message followed by the byte 128, zero bytes up to 56 modulo 64,
\* and the bit length as eight little-endian bytes.
Md5Pad(bytes) ==
  LET n     == Len(bytes)
      total == ((n + 8) \div 64 + 1) * 64
      bits  == 8 * n
  IN  [k \in 1..total |->
         IF k <= n THEN bytes[k]
         ELSE IF k = n + 1 THEN 128
         ELSE IF k <= total - 8 THEN 0
         ELSE IF k - (total - 8) <= 3
              THEN (bits \div Pow2(8 * (k - (total - 8) - 1))) % 256
         ELSE 0]

\* Word j (0 <= j < 16) of block blk (from 0), little-endian.
Md5BlockWord(padded, blk, j) ==
  LET p == 64 * blk + 4 * j
  IN  << padded[p + 3] + 256 * padded[p + 4],
         padded[p + 1] + 256 * padded[p + 2] >>

\* Operation k (0 <= k < 64) of the compression function on the state
\* st = <<a, b, c, d>>.
Md5Step(st, padded, blk, k) ==
  LET f  == Md5Aux32(k \div 16, st[2], st[3], st[4])
      s  == Add32(Add32(st[1], f),
                  Add32(Md5Sine[k + 1], Md5BlockWord(padded, blk, Md5Word(k))))
      nb == Add32(st[2], Rotl32(s, Md5Shift[k + 1]))
  IN  << st[4], nb, st[2], st[3] >>

\* Operations k, k + 1, ..., k + n - 1 in order (n >= 1): the first half,
\* and then, on the state it leaves, the second half.
RECURSIVE Md5Steps(_, _, _, _, _)
Md5Steps(st, padded, blk, k, n) ==
  IF n = 1 THEN Md5Step(st, padded, blk, k)
  ELSE LET half == Md5Steps(st, padded, blk, k, n \div 2)
       IN  IF Len(half) = 4
           THEN Md5Steps(half, padded, blk, k + (n \div 2), n - (n \div 2))
           ELSE half

Md5Block(st, padded, blk) ==
  LET r == Md5Steps(st, padded, blk, 0, 64)
  IN  << Add32(st[1], r[1]), Add32(st[2], r[2]),
         Add32(st[3], r[3]), Add32(st[4], r[4]) >>

\* Blocks blk, ..., blk + n - 1 in order (n >= 1).
RECURSIVE Md5Blocks(_, _, _, _)
Md5Blocks(st, padded, blk, n) ==
  IF n = 1 THEN Md5Block(st, padded, blk)
  ELSE LET half == Md5Blocks(st, padded, blk, n \div 2)
       IN  IF Len(half) = 4
           THEN Md5Blocks(half, padded, blk + (n \div 2), n - (n \div 2))
           ELSE half

HexByte(v) == << HexDigits[(v \div 16) + 1], HexDigits[(v % 16) + 1] >>

HexWord(w) ==
  HexByte(w[2] % 256) \o HexByte(w[2] \div 256) \o
  HexByte(w[1] % 256) \o HexByte(w[1] \div 256)

convert_to_md5(text) ==
  LET padded == Md5Pad(Encode(text))
      st == Md5Blocks(Md5InitState, padded, 0, Len(padded) \div 64)
  IN  HexWord(st[1]) \o HexWord(st[2]) \o HexWord(st[3]) \o HexWord(st[4])

\* ---------------------------------------------------------------------
\* The line translator
\* ---------------------------------------------------------------------
\* remove_c_from_text: text.replace('c', '').replace('C', '')
NotLowerC(ch) == ch # "c"

NotUpperC(ch) == ch # "C"

\* text.replace('c', '') alone: the capital 'C' is kept.
RemoveLowerC(text) == SelectSeq(text, NotLowerC)

remove_c_from_text(text) == SelectSeq(SelectSeq(text, NotLowerC), NotUpperC)

\* Largest number of '#' a heading may start with: the 6 of #{1,6}.
MaxHeading == 6

\* re.match(r'^(#{1,6}) (.*)', line): the lengths n of group 1 for which
\* the pattern matches, that is 1..6 '#' followed by a space.  (.*) then
\* takes the rest of the line, which holds no line break.
HeadingLengths(ln) ==
  { n \in 1..MaxHeading :
      /\ n + 1 <= Len(ln)
      /\ \A k \in 1..n : ln[k] = "#"
      /\ ln[n + 1] = " " }

HeadingMatch(ln) == HeadingLengths(ln) # {}

\* Group 1 is greedy: the longest run that lets the pattern match.
HeadingLevel(ln) ==
  CHOOSE n \in HeadingLengths(ln) : \A m \in HeadingLengths(ln) : m <= n

\* "." matches any character but a line break.
Dot(ch) == ch # "\n"

\* Group 2, (.*): the characters after the space up to a line break.
RECURSIVE DotStar(_, _)
DotStar(ln, p) ==
  IF p > Len(ln) \/ ~Dot(ln[p]) THEN << >>
  ELSE << ln[p] >> \o DotStar(ln, p + 1)

Heading(ln) ==
  LET n == HeadingLevel(ln)
  IN  << "<", "h", Digit(n), ">" >> \o DotStar(ln, n + 2)
        \o << "<", "/", "h", Digit(n), ">" >>

\* re.match(r'^- (.*)', line) and re.match(r'^\* (.*)', line)
PrefixMatch(ln, ch) == Len(ln) >= 2 /\ ln[1] = ch /\ ln[2] = " "

\* f"<li>{line[2:]}</li>"
ListItem(ln) == LiOpen \o SubSeq(ln, 3, Len(ln)) \o LiClose

\* A match of  oo(.*?)cc  starting at position p, for the doubled
\* delimiter characters o and c: the positions q of a closing "cc" with
\* only "." characters between.  The lazy (.*?) takes the first of them.
Closings(ln, p, o, c) ==
  { q \in (p + 2)..(Len(ln) - 1) :
      /\ ln[q] = c
      /\ ln[q + 1] = c
      /\ \A k \in (p + 2)..(q - 1) : Dot(ln[k]) }

MatchAt(ln, p, o, c) ==
  /\ p + 1 <= Len(ln)
  /\ ln[p] = o
  /\ ln[p + 1] = o
  /\ Closings(ln, p, o, c) # {}

\* The closing of a greedy (.*) in place of the lazy (.*?): the last one.
LastClosing(ln, p, o, c) ==
  CHOOSE q \in Closings(ln, p, o, c) : \A r \in Closings(ln, p, o, c) : r <= q

FirstClosing(ln, p, o, c) ==
  CHOOSE q \in Closings(ln, p, o, c) : \A r \in Closings(ln, p, o, c) : q <= r

\* The replacement of one match with group 1 = x.
Replacement(rule, x) ==
  CASE rule = "bold" -> BOpen \o x \o BClose
    [] rule = "em"   -> EmOpen \o x \o EmClose
    [] rule = "md5"  -> convert_to_md5(x)
    [] rule = "c"    -> remove_c_from_text(x)

\* re.sub(pattern, repl, line) from position p on: matches are taken
\* leftmost first and do not overlap; unmatched characters are copied.
RECURSIVE Sub(_, _, _, _, _)
Sub(ln, p, o, c, rule) ==
  IF p > Len(ln) THEN << >>
  ELSE IF MatchAt(ln, p, o, c)
       THEN LET q == FirstClosing(ln, p, o, c)
            IN  Replacement(rule, SubSeq(ln, p + 2, q - 1))
                  \o Sub(ln, q + 2, o, c, rule)
       ELSE << ln[p] >> \o Sub(ln, p + 1, o, c, rule)

SubBold(ln) == Sub(ln, 1, "*", "*", "bold")

SubEm(ln) == Sub(ln, 1, "_", "_", "em")

SubMd5(ln) == Sub(ln, 1, "[", "]", "md5")

SubC(ln) == Sub(ln, 1, "(", ")", "c")

\* The four substitutions of process_markdown_line, in its order.
Inline(ln) == SubC(SubMd5(SubEm(SubBold(ln))))

\* process_markdown_line with the inline substitutions done before the
\* line is classified.
ProcessSubstituted(ln) ==
  IF HeadingMatch(Inline(ln)) THEN PyStr(Heading(Inline(ln)))
  ELSE IF PrefixMatch(Inline(ln), "-")
       THEN PyTuple(<< ListItem(Inline(ln)), TagUl >>)
  ELSE IF PrefixMatch(Inline(ln), "*")
       THEN PyTuple(<< ListItem(Inline(ln)), TagOl >>)
  ELSE IF StripIsEmpty(Inline(ln)) THEN PyTuple(<< << >>, TagNewline >>)
  ELSE PyStr(Inline(ln))

\* process_markdown_line(line): the value returned.
process_markdown_line(ln) ==
  IF HeadingMatch(ln) THEN PyStr(Heading(ln))
  ELSE IF PrefixMatch(ln, "-") THEN PyTuple(<< ListItem(ln), TagUl >>)
  ELSE IF PrefixMatch(ln, "*") THEN PyTuple(<< ListItem(ln), TagOl >>)
  ELSE IF StripIsEmpty(Inline(ln)) THEN PyTuple(<< << >>, TagNewline >>)
  ELSE PyStr(Inline(ln))

\* ---------------------------------------------------------------------
\* The block accumulator: the body of the for loop of main
\* ---------------------------------------------------------------------
\* The lines appended to html_lines when a list is left.
Closing(lt) == IF Truthy(lt) THEN << CloseTag(lt) >> ELSE << >>

\* Accumulate without the closing of the block that is left when a list
\* of the other type starts.
AccumulateNoClose(lt, html_line, tag_type) ==
  IF tag_type = TagUl THEN
    [ emit |-> IF lt # TagUl THEN << OpenUl >> ELSE << >>,
      open |-> TagUl ]
  ELSE IF tag_type = TagOl THEN
    [ emit |-> IF lt # TagOl THEN << OpenOl >> ELSE << >>,
      open |-> TagOl ]
  ELSE IF tag_type = TagNewline THEN
    [ emit |-> Closing(lt) \o << ParaLine >>,
      open |-> IF Truthy(lt) THEN None ELSE lt ]
  ELSE
    [ emit |-> Closing(lt) \o << html_line >>,
      open |-> IF Truthy(lt) THEN None ELSE lt ]

\* Accumulate without the "newline" case: a blank line is appended like
\* any other fragment.
AccumulateNoPara(lt, html_line, tag_type) ==
  IF tag_type = TagUl THEN
    [ emit |-> IF lt # TagUl THEN Closing(lt) \o << OpenUl >> ELSE << >>,
      open |-> TagUl ]
  ELSE IF tag_type = TagOl THEN
    [ emit |-> IF lt # TagOl THEN Closing(lt) \o << OpenOl >> ELSE << >>,
      open |-> TagOl ]
  ELSE
    [ emit |-> Closing(lt) \o << html_line >>,
      open |-> IF Truthy(lt) THEN None ELSE lt ]

\* One pass of the loop body after the unpacking, for list_type = lt:
\* the lines appended to html_lines and the new list_type.
Accumulate(lt, html_line, tag_type) ==
  IF tag_type = TagUl THEN
    [ emit |-> IF lt # TagUl THEN Closing(lt) \o << OpenUl >> ELSE << >>,
      open |-> TagUl ]
  ELSE IF tag_type = TagOl THEN
    [ emit |-> IF lt # TagOl THEN Closing(lt) \o << OpenOl >> ELSE << >>,
      open |-> TagOl ]
  ELSE IF tag_type = TagNewline THEN
    [ emit |-> Closing(lt) \o << ParaLine >>,
      open |-> IF Truthy(lt) THEN None ELSE lt ]
  ELSE
    [ emit |-> Closing(lt) \o << html_line >>,
      open |-> IF Truthy(lt) THEN None ELSE lt ]

\* After the loop with nothing appended.
FinishNothing(lt) == << >>

\* After the loop: "if list_type: html_lines.append(...)".
Finish(lt) == Closing(lt)

\* ---------------------------------------------------------------------
\* Inputs
\* ---------------------------------------------------------------------
ProgName == "./markdown2html.py"
MdPath == "README.md"
HtmlPath == "README.html"

\* sys.argv of length n.
Argv(n) ==
  [k \in 1..n |->
     CASE k = 1 -> ProgName
       [] k = 2 -> MdPath
       [] k = 3 -> HtmlPath
       [] OTHER -> "extra"]

NoFile == << "no file" >>
OldContent == << "o", "l", "d" >>

\* Lines of input files, as readlines() returns them.
RawTitle == << "#", " ", "T", "i", "t", "l", "e", "\n" >>
RawOne == << "-", " ", "o", "n", "e", "\n" >>
RawTwo == << "-", " ", "t", "w", "o", "\n" >>
RawNormal ==
  << "N", "o", "r", "m", "a", "l", " ", "*", "*", "t", "e", "x", "t", "*",
     "*", ".", "\n" >>
RawBlank == << "\n" >>
RawStar == << "*", " ", "x", "\n" >>
RawTwoChars == << "a", "b", "\n" >>
RawSpaces == << " ", "\t", "\n" >>
RawOnlyC == << "(", "(", "c", ")", ")", "\n" >>
RawDashBold == << "-", " ", "*", "*", "x", "*", "*", " ", "\n" >>

RawLines ==
  { RawTitle, RawOne, RawTwo, RawNormal, RawBlank, RawStar, RawTwoChars,
    RawSpaces, RawOnlyC, RawDashBold }

ExampleFile == << RawTitle, RawOne, RawTwo, RawNormal, RawBlank >>

\* The contents an input file may have.
Files ==
  UNION { [1..n -> RawLines] : n \in 0..MaxLines } \cup { ExampleFile }

\* Concatenation of a sequence of texts.
RECURSIVE Concat(_)
Concat(parts) ==
  IF parts = << >> THEN << >> ELSE Head(parts) \o Concat(Tail(parts))

Compose(tokens, n) ==
  { Concat(parts) : parts \in UNION { [1..m -> tokens] : m \in 0..n } }

Hashes(n) == [k \in 1..n |-> "#"]

HeadContents ==
  { << >>, << "a" >>, << "a", " ", "b" >>, << " ", "a" >>,
    << "*", "*", "a", "*", "*" >> }

\* Lines that start like a heading or a list item: '#' characters or a
\* "-" or a "*", then a space or none, then some content.
PrefixLines ==
  { start \o sep \o content :
      start \in { Hashes(n) : n \in 0..MaxHashes }
                  \cup { << "-" >>, << "*" >> },
      sep \in { << >>, << " " >> },
      content \in HeadContents }

Tokens ==
  { << "*", "*" >>, << "_", "_" >>, << "[", "[" >>, << "]", "]" >>,
    << "(", "(" >>, << ")", ")" >>, << "a" >>, << "c" >>, << "C" >>,
    << " " >> }

TokenLines == Compose(Tokens, MaxTokens)

Marks == { << "*", "*" >>, << "_", "_" >>, << "a" >> }

MarkLines == Compose(Marks, MaxMarks)

HtmlTokens ==
  { BOpen, BClose, EmOpen, ParaLine, << "a" >>, << " " >>, << "*" >>,
    << "_" >>, << "[" >> }

HtmlLines == Compose(HtmlTokens, MaxHtml)

ParenTokens ==
  { << "(", "(" >>, << ")", ")" >>, << "c" >>, << "C" >>, << "a" >> }

ParenLines == Compose(ParenTokens, MaxParens)

ExCoconut ==
  << "(", "(", "c", "o", "c", "o", "n", "u", "t", ")", ")" >>

ExDashBold == << "-", " ", "*", "*", "x", "*", "*" >>

\* The arguments process_markdown_line is called with on its own.
LineInputs ==
  PrefixLines \cup TokenLines \cup MarkLines \cup HtmlLines \cup ParenLines
    \cup { ExCoconut, ExDashBold }

\* ---------------------------------------------------------------------
\* main
\* ---------------------------------------------------------------------
UsageMsg == << "Usage: ./markdown2html.py README.md README.html" >>

MissingMsg(filename) == << "Missing ", filename >>

\* What the interpreter prints for the uncaught ValueError of a failed
\* unpacking; it then exits with status 1.
Traceback == << "Traceback (most recent call last)", "ValueError" >>

Init ==
  /\ argv \in { Argv(n) : n \in 1..MaxArgc }
  /\ md_kind \in { "file", "dir", "absent" }
  /\ out_file \in { NoFile, OldContent }
  /\ stderr = << >>
  /\ pc = "args"
  /\ exit_code = -1
  /\ lines = << >>
  /\ idx = 0
  /\ html_lines = << >>
  /\ list_type = None
  /\ arg_line = << >>
  /\ ret = << >>
  /\ calls = 0

\* "if len(sys.argv) < 3: usage(); sys.exit(1)"
Usage ==
  /\ pc = "args"
  /\ Len(argv) < 3
  /\ stderr' = Append(stderr, UsageMsg)
  /\ exit_code' = 1
  /\ pc' = "exit"
  /\ UNCHANGED << argv, md_kind, out_file, lines, idx, html_lines,
                  list_type, callVars >>

ArgsOk ==
  /\ pc = "args"
  /\ ~(Len(argv) < 3)
  /\ pc' = "isfile"
  /\ UNCHANGED << argv, md_kind, out_file, stderr, exit_code, lines, idx,
                  html_lines, list_type, callVars >>

\* "if not os.path.isfile(markdown_file): file_missing(...); sys.exit(1)"
FileMissing ==
  /\ pc = "isfile"
  /\ md_kind # "file"
  /\ stderr' = Append(stderr, MissingMsg(argv[2]))
  /\ exit_code' = 1
  /\ pc' = "exit"
  /\ UNCHANGED << argv, md_kind, out_file, lines, idx, html_lines,
                  list_type, callVars >>

\* ReadLines with the output file opened for writing, and so created or
\* truncated, before the lines are processed.
ReadLinesTruncate ==
  /\ pc = "isfile"
  /\ md_kind = "file"
  /\ \E content \in Files : lines' = content
  /\ out_file' = << >>
  /\ html_lines' = << >>
  /\ list_type' = None
  /\ idx' = 1
  /\ pc' = "loop"
  /\ UNCHANGED << argv, md_kind, stderr, exit_code, callVars >>

\* "lines = md.readlines()", then "html_lines = []; list_type = None".
ReadLines ==
  /\ pc = "isfile"
  /\ md_kind = "file"
  /\ \E content \in Files : lines' = content
  /\ html_lines' = << >>
  /\ list_type' = None
  /\ idx' = 1
  /\ pc' = "loop"
  /\ UNCHANGED << argv, md_kind, out_file, stderr, exit_code, callVars >>

\* The value "html_line, tag_type = process_markdown_line(line)" unpacks
\* for the line at position k.
Translated(k) == process_markdown_line(rstrip(lines[k]))

\* A pass of the loop that rewrites the output: the tag of a list that is
\* opened takes the place of the last output line.
LoopStepRewrite ==
  /\ pc = "loop"
  /\ idx <= Len(lines)
  /\ UnpackOk(Translated(idx))
  /\ LET items == Iterate(Translated(idx))
         step  == Accumulate(list_type, items[1], items[2])
     IN  /\ html_lines' =
              IF html_lines # << >> /\ step.emit # << >>
                   /\ step.open \in { TagUl, TagOl }
              THEN SubSeq(html_lines, 1, Len(html_lines) - 1) \o step.emit
              ELSE html_lines \o step.emit
         /\ list_type' = step.open
  /\ idx' = idx + 1
  /\ UNCHANGED << argv, md_kind, out_file, stderr, pc, exit_code, lines,
                  callVars >>

\* One pass of the for loop whose unpacking succeeds.
LoopStep ==
  /\ pc = "loop"
  /\ idx <= Len(lines)
  /\ UnpackOk(Translated(idx))
  /\ LET items == Iterate(Translated(idx))
         step  == Accumulate(list_type, items[1], items[2])
     IN  /\ html_lines' = html_lines \o step.emit
         /\ list_type' = step.open
  /\ idx' = idx + 1
  /\ UNCHANGED << argv, md_kind, out_file, stderr, pc, exit_code, lines,
                  callVars >>

\* One pass of the for loop whose unpacking raises ValueError: nothing
\* catches it, the interpreter prints the traceback and exits with 1.
LoopRaise ==
  /\ pc = "loop"
  /\ idx <= Len(lines)
  /\ ~UnpackOk(Translated(idx))
  /\ stderr' = Append(stderr, Traceback)
  /\ exit_code' = 1
  /\ pc' = "exit"
  /\ UNCHANGED << argv, md_kind, out_file, lines, idx, html_lines,
                  list_type, callVars >>

\* The loop is over: "if list_type: html_lines.append(f"</{list_type}>")"
LoopEnd ==
  /\ pc = "loop"
  /\ idx > Len(lines)
  /\ html_lines' = html_lines \o Finish(list_type)
  /\ pc' = "write"
  /\ UNCHANGED << argv, md_kind, out_file, stderr, exit_code, lines, idx,
                  list_type, callVars >>

\* "with open(html_file, 'w') as html: html.write('\n'.join(html_lines))"
WriteHtml ==
  /\ pc = "write"
  /\ out_file' = Join(html_lines)
  /\ pc' = "written"
  /\ UNCHANGED << argv, md_kind, stderr, exit_code, lines, idx, html_lines,
                  list_type, callVars >>

\* "sys.exit(0)"
Exit0 ==
  /\ pc = "written"
  /\ exit_code' = 0
  /\ pc' = "exit"
  /\ UNCHANGED << argv, md_kind, out_file, stderr, lines, idx, html_lines,
                  list_type, callVars >>

Next ==
  \/ Usage
  \/ ArgsOk
  \/ FileMissing
  \/ ReadLines
  \/ LoopStep
  \/ LoopRaise
  \/ LoopEnd
  \/ WriteHtml
  \/ Exit0

Spec == Init /\ [][Next]_vars

\* ---------------------------------------------------------------------
\* process_markdown_line called on its own, and again on the text it
\* returned
\* ---------------------------------------------------------------------
\* The text of a returned value: the str itself, or item 0 of the tuple.
Fragment(v) == IF v.kind = "str" THEN v.items ELSE v.items[1]

LineInit ==
  /\ arg_line \in LineInputs
  /\ ret = << >>
  /\ calls = 0
  /\ argv = Argv(1)
  /\ md_kind = "absent"
  /\ out_file = NoFile
  /\ stderr = << >>
  /\ pc = "idle"
  /\ exit_code = -1
  /\ lines = << >>
  /\ idx = 0
  /\ html_lines = << >>
  /\ list_type = None

Call ==
  /\ calls = 0
  /\ ret' = << process_markdown_line(arg_line) >>
  /\ calls' = 1
  /\ UNCHANGED << arg_line, mainVars >>

CallAgain ==
  /\ calls = 1
  /\ ret' = Append(ret, process_markdown_line(Fragment(ret[1])))
  /\ calls' = 2
  /\ UNCHANGED << arg_line, mainVars >>

LineNext == Call \/ CallAgain

LineSpec == LineInit /\ [][LineNext]_vars

\* ---------------------------------------------------------------------
\* Properties
\* ---------------------------------------------------------------------
\* The line at position k of the input as the translator receives it.
LineAt(k) == rstrip(lines[k])

\* main has raised: the traceback of the uncaught ValueError is printed.
Raised == \E k \in 1..Len(stderr) : stderr[k] = Traceback

\* The list block open after the first n lines of the output out: None,
\* TagUl or TagOl, or Broken once the bracketing is wrong (an opening tag
\* inside an open block, a closing tag that matches no open block, a line
\* that is no list item inside an open block).
Broken == << "broken" >>

IsListItem(text) ==
  Len(text) >= Len(LiOpen) /\ SubSeq(text, 1, Len(LiOpen)) = LiOpen

RECURSIVE OpenAfter(_, _)
OpenAfter(out, n) ==
  IF n = 0 THEN None
  ELSE
    LET before == OpenAfter(out, n - 1)
        text   == out[n]
    IN  IF before = Broken THEN Broken
        ELSE IF text = OpenUl THEN (IF before = None THEN TagUl ELSE Broken)
        ELSE IF text = OpenOl THEN (IF before = None THEN TagOl ELSE Broken)
        ELSE IF text = CloseTag(TagUl)
             THEN (IF before = TagUl THEN None ELSE Broken)
        ELSE IF text = CloseTag(TagOl)
             THEN (IF before = TagOl THEN None ELSE Broken)
        ELSE IF IsListItem(text) THEN before
        ELSE (IF before = None THEN None ELSE Broken)

ExampleOutput ==
  << << "<", "h", "1", ">", "T", "i", "t", "l", "e", "<", "/", "h", "1", ">" >>,
     OpenUl,
     << "<", "l", "i", ">", "o", "n", "e", "<", "/", "l", "i", ">" >>,
     << "<", "l", "i", ">", "t", "w", "o", "<", "/", "l", "i", ">" >>,
     CloseTag(TagUl),
     << "N", "o", "r", "m", "a", "l", " ", "<", "b", ">", "t", "e", "x", "t",
        "<", "/", "b", ">", "." >>,
     ParaLine >>

\* C1: the run on the five lines "# Title", "- one", "- two",
\* "Normal **text**.", "" ends with exit status 0 and has produced exactly
\* the seven lines of ExampleOutput, written joined by single newlines.
C1_EndToEnd ==
  (lines = ExampleFile /\ pc = "exit")
    => /\ exit_code = 0
       /\ html_lines = ExampleOutput
       /\ out_file = Join(ExampleOutput)

\* C2: translating and accumulating never fails: no run ends by an error
\* raised while a line is processed.
C2_NeverFails == ~Raised

\* C3: after any prefix of the input has been processed, the output is
\* correctly bracketed (every block is closed by its own closing tag before
\* another block opens and before a line that is no list item, and no
\* closing tag comes without its open block), and list_type is exactly the
\* block the output leaves open.
C3_OneOpenBlock ==
  /\ pc = "loop" => OpenAfter(html_lines, Len(html_lines)) = list_type
  /\ OpenAfter(html_lines, Len(html_lines)) # Broken
  /\ list_type \in { None, TagUl, TagOl }

\* C3 witness: a ul block was closed and an ol block opened in its place.
C3_Witness ==
  /\ pc = "loop"
  /\ list_type = TagOl
  /\ html_lines = << OpenUl, CloseTag(TagUl), OpenOl >>

StartsWith(text, prefix) ==
  Len(text) >= Len(prefix) /\ SubSeq(text, 1, Len(prefix)) = prefix

IsDash(text) == StartsWith(text, << "-", " " >>)

IsStar(text) == StartsWith(text, << "*", " " >>)

\* "<li>{rest}</li>", rest being the line without its first two characters.
LiOf(text) == LiOpen \o SubSeq(text, 3, Len(text)) \o LiClose

\* Number of lines of out equal to text.
Count(out, text) == Cardinality({ j \in 1..Len(out) : out[j] = text })

\* C4: every processed "- " line has its <li>rest</li> line in the output,
\* inside a ul block; each maximal run of "- " lines has one <ul> line, and
\* the ul block is open exactly while the last processed line is a "- "
\* line (it is closed as soon as another line follows).
C4_UlItems ==
  pc = "loop" =>
    /\ \A k \in 1..(idx - 1) :
         IsDash(LineAt(k)) =>
           \E j \in 1..Len(html_lines) :
              /\ html_lines[j] = LiOf(LineAt(k))
              /\ OpenAfter(html_lines, j) = TagUl
    /\ Count(html_lines, OpenUl) =
         Cardinality({ k \in 1..(idx - 1) :
                         /\ IsDash(LineAt(k))
                         /\ (k = 1 \/ ~IsDash(LineAt(k - 1))) })
    /\ (list_type = TagUl) <=> (idx > 1 /\ IsDash(LineAt(idx - 1)))

\* The last n lines of out.
LastLines(out, n) == SubSeq(out, Len(out) - n + 1, Len(out))

\* C5: a "* " line right after a "- " line leaves </ul>, <ol> and its <li>
\* line as the last three output lines with list_type = ol, and a "- " line
\* right after a "* " line leaves </ol>, <ul> and its <li> line with
\* list_type = ul.
C5_Switch ==
  (pc = "loop" /\ idx >= 3) =>
    /\ (IsDash(LineAt(idx - 2)) /\ IsStar(LineAt(idx - 1))) =>
         /\ Len(html_lines) >= 3
         /\ LastLines(html_lines, 3)
              = << CloseTag(TagUl), OpenOl, LiOf(LineAt(idx - 1)) >>
         /\ list_type = TagOl
    /\ (IsStar(LineAt(idx - 2)) /\ IsDash(LineAt(idx - 1))) =>
         /\ Len(html_lines) >= 3
         /\ LastLines(html_lines, 3)
              = << CloseTag(TagOl), OpenUl, LiOf(LineAt(idx - 1)) >>
         /\ list_type = TagUl

\* Every character of the text is a blank, a tab or a line break.
AllBlank(text) == \A k \in 1..Len(text) : text[k] \in { " ", "\t", "\n" }

\* C6: processing a blank or whitespace-only input line appends the closing
\* tag of the open list, if one is open, and then <p>, and nothing else,
\* and leaves no list open; no output line is ever empty.
C6_BlankLine ==
  /\ [](\A j \in 1..Len(html_lines) : html_lines[j] # << >>)
  /\ [][ (pc = "loop" /\ idx <= Len(lines) /\ AllBlank(lines[idx]))
           => /\ html_lines' =
                   html_lines
                     \o (IF list_type \in { TagUl, TagOl }
                         THEN << CloseTag(list_type) >> ELSE << >>)
                     \o << ParaLine >>
              /\ list_type' = None
              /\ idx' = idx + 1 ]_vars

\* C6 witness: a whitespace-only line was processed while a ul block was
\* open.
C6_Witness ==
  /\ pc = "loop"
  /\ idx = 3
  /\ lines[1] = RawOne
  /\ lines[2] = RawSpaces
  /\ html_lines = << OpenUl, CloseTag(TagUl), ParaLine >>
  /\ list_type = None

\* Number of '#' the text starts with.
RECURSIVE HashRun(_)
HashRun(text) ==
  IF text # << >> /\ Head(text) = "#" THEN 1 + HashRun(Tail(text)) ELSE 0

\* N '#' characters, 1 <= N <= 6, and then a space.
HeadingForm(text) ==
  /\ HashRun(text) \in 1..6
  /\ Len(text) > HashRun(text)
  /\ text[HashRun(text) + 1] = " "

\* "<hN>text</hN>" for a line of heading form.
HeadingOf(text) ==
  << "<", "h", Digit(HashRun(text)), ">" >>
    \o SubSeq(text, HashRun(text) + 2, Len(text))
    \o << "<", "/", "h", Digit(HashRun(text)), ">" >>

\* C7: a line of heading form is translated to the pair of <hN>text</hN>
\* and the tag none, is processed without error, and its fragment is then a
\* line of the output.
C7_Heading ==
  /\ (pc = "loop" /\ idx <= Len(lines) /\ HeadingForm(LineAt(idx)))
       => /\ Translated(idx).kind = "tuple"
          /\ Translated(idx).items = << HeadingOf(LineAt(idx)), None >>
  /\ (Raised /\ idx <= Len(lines)) => ~HeadingForm(LineAt(idx))
  /\ pc = "loop" =>
       \A k \in 1..(idx - 1) :
          HeadingForm(LineAt(k)) =>
            \E j \in 1..Len(html_lines) : html_lines[j] = HeadingOf(LineAt(k))

\* C8: a finished run is one of three outcomes: too few arguments, usage
\* message and status 1; otherwise no input file, missing-file message and
\* status 1; otherwise status 0 with the joined output written.  In the
\* two status-1 outcomes the output file is as it was, and status 0 is
\* only set once the output is written.
C8_Outcomes ==
  /\ pc = "exit" =>
       IF Len(argv) < 3
       THEN /\ exit_code = 1
            /\ stderr = << UsageMsg >>
            /\ out_file \in { NoFile, OldContent }
       ELSE IF md_kind # "file"
       THEN /\ exit_code = 1
            /\ stderr = << MissingMsg(MdPath) >>
            /\ out_file \in { NoFile, OldContent }
       ELSE /\ exit_code = 0
            /\ stderr = << >>
            /\ out_file = Join(html_lines)
  /\ exit_code = 0 => (pc = "exit" /\ out_file = Join(html_lines))
  /\ pc # "exit" => exit_code = -1

\* The text holds  oo ... cc  for the doubled characters o and c: two
\* "oo" and "cc" that do not overlap, with no line break between.
HasPair(text, o, c) ==
  \E i \in 1..Len(text), j \in 1..Len(text) :
     /\ i + 2 <= j
     /\ j + 1 <= Len(text)
     /\ text[i] = o /\ text[i + 1] = o
     /\ text[j] = c /\ text[j + 1] = c
     /\ \A k \in (i + 2)..(j - 1) : text[k] # "\n"

NotHeadingOrList(text) ==
  ~HeadingForm(text) /\ ~IsDash(text) /\ ~IsStar(text)

\* Already-converted text: no heading or list prefix, no pair of Markdown
\* markers, not blank.
Converted(text) ==
  /\ NotHeadingOrList(text)
  /\ ~HasPair(text, "*", "*")
  /\ ~HasPair(text, "_", "_")
  /\ ~HasPair(text, "[", "]")
  /\ ~HasPair(text, "(", ")")
  /\ ~AllBlank(text)

\* C9: translating already-converted text returns the pair of the same
\* text and the tag none, and so does translating the returned text again.
C9_Idempotent ==
  \A n \in 1..calls :
     Converted(arg_line) =>
       /\ ret[n].kind = "tuple"
       /\ ret[n].items = << arg_line, None >>

Has(text, ch) == \E k \in 1..Len(text) : text[k] = ch

\* The text with every <b>, </b> put back to "**" and every <em>, </em>
\* put back to "__".
RECURSIVE Unmark(_)
Unmark(text) ==
  IF text = << >> THEN << >>
  ELSE IF StartsWith(text, BOpen)
       THEN << "*", "*" >> \o Unmark(SubSeq(text, 4, Len(text)))
  ELSE IF StartsWith(text, BClose)
       THEN << "*", "*" >> \o Unmark(SubSeq(text, 5, Len(text)))
  ELSE IF StartsWith(text, EmOpen)
       THEN << "_", "_" >> \o Unmark(SubSeq(text, 5, Len(text)))
  ELSE IF StartsWith(text, EmClose)
       THEN << "_", "_" >> \o Unmark(SubSeq(text, 6, Len(text)))
  ELSE << Head(text) >> \o Unmark(Tail(text))

At(text, p, part) ==
  p + Len(part) - 1 <= Len(text) /\ SubSeq(text, p, p + Len(part) - 1) = part

\* Between an opening tag and the first closing tag after it the doubled
\* marker mm does not occur: each span is the shortest one.
ShortestSpans(text, opening, closing, mm) ==
  \A i \in 1..Len(text), j \in 1..Len(text) :
     ( /\ At(text, i, opening)
       /\ i + Len(opening) <= j
       /\ At(text, j, closing)
       /\ \A k \in (i + Len(opening))..(j - 1) : ~At(text, k, closing) )
     => \A k \in (i + Len(opening))..(j - 2) :
           ~(text[k] = mm /\ text[k + 1] = mm)

ExBold == << "*", "*", "a", "*", "*" >>
ExEm == << "_", "_", "a", "_", "_" >>
ExBoth == << "*", "*", "a", "*", "*", "_", "_", "a", "_", "_" >>
ExInterleaved == << "*", "*", "_", "_", "a", "*", "*", "_", "_" >>
ExInterleavedOut ==
  << "<", "b", ">", "<", "e", "m", ">", "a", "<", "/", "b", ">",
     "<", "/", "e", "m", ">" >>

\* What C10 says of every line that is neither heading nor list item.  The
\* result is the text computed with the bold rule first; on a line without
\* "[", "(" and "<" (no other rule applies, no tag is already there) no
\* pair of "**" or "__" is left, every span is the shortest one, and
\* putting the markers back gives the line.  A blank line has no markers
\* and is returned as the empty "newline" pair.
SubstitutedBoldThenEm ==
  (calls >= 1 /\ NotHeadingOrList(arg_line)) =>
    LET r == Fragment(ret[1])
    IN  IF ret[1].kind = "tuple" THEN StripIsEmpty(Inline(arg_line))
        ELSE
          /\ r = SubC(SubMd5(SubEm(SubBold(arg_line))))
          /\ (~Has(arg_line, "[") /\ ~Has(arg_line, "(")
                /\ ~Has(arg_line, "<"))
               => /\ ~HasPair(r, "*", "*")
                  /\ ~HasPair(r, "_", "_")
                  /\ ShortestSpans(r, BOpen, BClose, "*")
                  /\ ShortestSpans(r, EmOpen, EmClose, "_")
                  /\ Unmark(r) = arg_line
          /\ arg_line = ExBold => r = BOpen \o << "a" >> \o BClose
          /\ arg_line = ExEm => r = EmOpen \o << "a" >> \o EmClose
          /\ arg_line = ExBoth
               => r = BOpen \o << "a" >> \o BClose
                        \o EmOpen \o << "a" >> \o EmClose
          /\ arg_line = ExInterleaved => r = ExInterleavedOut

\* C10 (as stated): ... and on a line where the two markers interleave
\* the result is not the one of emphasis-then-bold.
C10_OrderObservable ==
  /\ SubstitutedBoldThenEm
  /\ (calls >= 1 /\ arg_line = ExInterleaved)
       => Fragment(ret[1]) # SubBold(SubEm(arg_line))

\* C10 (amended): ... and the result is also the one of emphasis-then-bold,
\* on every line: the order of the two rules cannot be seen in the result.
C10_BoldThenEm ==
  /\ SubstitutedBoldThenEm
  /\ (calls >= 1 /\ NotHeadingOrList(arg_line) /\ ret[1].kind = "str")
       => Fragment(ret[1]) = SubC(SubMd5(SubBold(SubEm(arg_line))))

\* C10 witness: the interleaved line has been translated.
C10_Witness ==
  /\ calls >= 1
  /\ arg_line = ExInterleaved
  /\ ret[1].kind = "str"
  /\ ret[1].items = ExInterleavedOut


\* The text without its characters 'c' and 'C', the others in their order.
RECURSIVE WithoutC(_)
WithoutC(text) ==
  IF text = << >> THEN << >>
  ELSE IF Head(text) \in { "c", "C" } THEN WithoutC(Tail(text))
  ELSE << Head(text) >> \o WithoutC(Tail(text))

\* The positions i of a "((" that has a "))" after it, not overlapping.
Openings(text) ==
  { i \in 1..Len(text) :
      /\ i + 3 <= Len(text)
      /\ text[i] = "(" /\ text[i + 1] = "("
      /\ \E j \in (i + 2)..(Len(text) - 1) : text[j] = ")" /\ text[j + 1] = ")" }

\* Every ((X)) of the text replaced by X without 'c' and 'C', taking the
\* leftmost "((" that has a "))" after it and the first "))" after it, and
\* going on after that "))"; everything else is copied.
RECURSIVE CRemoved(_)
CRemoved(text) ==
  IF Openings(text) = {} THEN text
  ELSE
    LET i == CHOOSE a \in Openings(text) : \A b \in Openings(text) : a <= b
        j == CHOOSE a \in (i + 2)..(Len(text) - 1) :
               /\ text[a] = ")" /\ text[a + 1] = ")"
               /\ \A b \in (i + 2)..(a - 1) :
                     ~(text[b] = ")" /\ text[b + 1] = ")")
    IN  SubSeq(text, 1, i - 1) \o WithoutC(SubSeq(text, i + 2, j - 1))
          \o CRemoved(SubSeq(text, j + 2, Len(text)))

ExCoconutOut == << "o", "o", "n", "u", "t" >>

\* C11: on a line that is neither heading nor list item the result is the
\* text left by the earlier rules with every ((X)) replaced by X without
\* its 'c' and 'C'; on a line where no earlier rule applies (no "*", "_",
\* "[") that is the line itself with every ((X)) so replaced, 'c' and 'C'
\* elsewhere kept, and the line unchanged when it has no (( )) pair;
\* ((coconut)) gives oonut.  A result that is blank is returned as the
\* empty fragment.
C11_RemoveC ==
  (calls >= 1 /\ NotHeadingOrList(arg_line)) =>
    LET r == Fragment(ret[1])
        before == SubMd5(SubEm(SubBold(arg_line)))
    IN  IF ret[1].kind = "tuple" THEN AllBlank(CRemoved(before))
        ELSE
          /\ r = CRemoved(before)
          /\ (~Has(arg_line, "*") /\ ~Has(arg_line, "_")
                /\ ~Has(arg_line, "["))
               => /\ r = CRemoved(arg_line)
                  /\ ~HasPair(arg_line, "(", ")") => r = arg_line
          /\ arg_line = ExCoconut => r = ExCoconutOut

\* C11 witness: ((coconut)) has been translated to oonut.
C11_Witness ==
  /\ calls >= 1
  /\ arg_line = ExCoconut
  /\ ret[1].kind = "str"
  /\ ret[1].items = ExCoconutOut

\* The tags of the translator.
Tags == { None, TagUl, TagOl, TagNewline }

\* C12: the value the translator returns for the line about to be
\* processed is a pair of a fragment and a tag of Tags, so the two values
\* main unpacks are the whole fragment and a tag of Tags.
C12_PairResult ==
  (pc = "loop" /\ idx <= Len(lines)) =>
    /\ Translated(idx).kind = "tuple"
    /\ Len(Translated(idx).items) = 2
    /\ Translated(idx).items[2] \in Tags
    /\ UnpackOk(Translated(idx))
    /\ Iterate(Translated(idx))[2] \in Tags
    /\ Iterate(Translated(idx))[1] = Fragment(Translated(idx))

\* The line about to be processed is plain text or a heading: it is
\* translated with no tag "ul", "ol" or "newline".
TagNonePending ==
  /\ pc = "loop"
  /\ idx <= Len(lines)
  /\ ~( /\ Translated(idx).kind = "tuple"
        /\ Translated(idx).items[2] \in { TagUl, TagOl, TagNewline } )

\* C13: processing a plain-text or heading line appends the whole
\* fragment as one output line, after the closing tag of the open list if
\* one is open, appends nothing else, and leaves no list open.
C13_TagNone ==
  [][ TagNonePending
        => /\ html_lines' =
                html_lines
                  \o (IF list_type \in { TagUl, TagOl }
                      THEN << CloseTag(list_type) >> ELSE << >>)
                  \o << Fragment(Translated(idx)) >>
           /\ list_type' = None
           /\ idx' = idx + 1 ]_vars

ExDashBoldOut ==
  << "<", "l", "i", ">", "*", "*", "x", "*", "*", "<", "/", "l", "i", ">" >>

\* C14: a line of heading form is translated to its <hN>text</hN> and to
\* no list item or blank line, a line starting with "- " to the pair of
\* <li>rest</li> and "ul", a line starting with "* " to the pair of
\* <li>rest</li> and "ol", the text and the rest being copied as they are,
\* markers included; - **x** gives <li>**x**</li>.
C14_Priority ==
  calls >= 1 =>
    /\ HeadingForm(arg_line) =>
         /\ Fragment(ret[1]) = HeadingOf(arg_line)
         /\ ~( /\ ret[1].kind = "tuple"
               /\ ret[1].items[2] \in { TagUl, TagOl, TagNewline } )
    /\ IsDash(arg_line) =>
         /\ ret[1].kind = "tuple"
         /\ ret[1].items = << LiOf(arg_line), TagUl >>
    /\ IsStar(arg_line) =>
         /\ ret[1].kind = "tuple"
         /\ ret[1].items = << LiOf(arg_line), TagOl >>
    /\ arg_line = ExDashBold => Fragment(ret[1]) = ExDashBoldOut

\* C14 witness: - **x** has been translated to <li>**x**</li>, tagged ul.
C14_Witness ==
  /\ calls >= 1
  /\ arg_line = ExDashBold
  /\ ret[1].kind = "tuple"
  /\ ret[1].items = << ExDashBoldOut, TagUl >>

\* The output is finished: the loop and the closing after it are done.
Finished == pc \in { "write", "written" } \/ (pc = "exit" /\ exit_code = 0)

\* C15: the step after the last input line appends the closing tag of the
\* open list, if one is open, and nothing else; in the finished output no
\* list is open, there are as many <ul> lines as </ul> lines and as many
\* <ol> lines as </ol> lines.
C15_Finalization ==
  /\ [][ (pc = "loop" /\ idx > Len(lines))
           => /\ html_lines' =
                   html_lines
                     \o (IF list_type \in { TagUl, TagOl }
                         THEN << CloseTag(list_type) >> ELSE << >>)
              /\ pc' = "write" ]_vars
  /\ [](Finished =>
          /\ OpenAfter(html_lines, Len(html_lines)) = None
          /\ Count(html_lines, OpenUl) = Count(html_lines, CloseTag(TagUl))
          /\ Count(html_lines, OpenOl) = Count(html_lines, CloseTag(TagOl)))

\* C15 witness: the input ended inside an ol block that followed a ul
\* block, and the block was closed.
C15_Witness ==
  /\ pc = "write"
  /\ list_type = TagOl
  /\ html_lines = << OpenUl, CloseTag(TagUl), OpenOl, CloseTag(TagOl) >>

\* The line about to be processed is neither heading nor list item.
InlinePending ==
  /\ pc = "loop"
  /\ idx <= Len(lines)
  /\ NotHeadingOrList(LineAt(idx))

\* C16: a line that is neither heading nor list item is translated to the
\* pair of the empty fragment and "newline" when its text after the
\* substitutions is empty or blank, and is then processed like a blank
\* line (closing tag of the open list, then <p>); otherwise it is
\* translated to the pair of the substituted text and the tag none.
C16_BlankAfterSub ==
  /\ [](InlinePending =>
          IF AllBlank(Inline(LineAt(idx)))
          THEN /\ Translated(idx).kind = "tuple"
               /\ Translated(idx).items = << << >>, TagNewline >>
          ELSE /\ Translated(idx).kind = "tuple"
               /\ Translated(idx).items = << Inline(LineAt(idx)), None >>)
  /\ [][ (InlinePending /\ AllBlank(Inline(LineAt(idx))))
           => /\ html_lines' =
                   html_lines
                     \o (IF list_type \in { TagUl, TagOl }
                         THEN << CloseTag(list_type) >> ELSE << >>)
                     \o << ParaLine >>
              /\ list_type' = None ]_vars

\* C17: in the finished output every <ul> or <ol> line is followed at
\* once by an <li> line, every </ul> or </ol> line comes right after an
\* <li> line, and there are as many <li> lines as the input has lines
\* starting with "- " or "* ".
C17_NoEmptyBlock ==
  Finished =>
    /\ \A j \in 1..Len(html_lines) :
         /\ html_lines[j] \in { OpenUl, OpenOl } =>
              (j < Len(html_lines) /\ IsListItem(html_lines[j + 1]))
         /\ html_lines[j] \in { CloseTag(TagUl), CloseTag(TagOl) } =>
              (j > 1 /\ IsListItem(html_lines[j - 1]))
    /\ Cardinality({ j \in 1..Len(html_lines) : IsListItem(html_lines[j]) })
         = Cardinality({ k \in 1..Len(lines) :
                           IsDash(LineAt(k)) \/ IsStar(LineAt(k)) })

IsPrefix(a, b) == Len(a) <= Len(b) /\ SubSeq(b, 1, Len(a)) = a

\* The lines appended for a line whose processing does not fail, as a
\* function of its text and of the open block: for a "- " or "* " line
\* the change of block, for a line blank after the substitutions the
\* closing tag and <p>, for any other line the closing tag and the text
\* main takes for its fragment.
Appended(text, open) ==
  LET close == IF open \in { TagUl, TagOl }
               THEN << CloseTag(open) >> ELSE << >>
  IN  IF IsDash(text)
      THEN (IF open = TagUl THEN << >> ELSE close \o << OpenUl >>)
      ELSE IF IsStar(text)
      THEN (IF open = TagOl THEN << >> ELSE close \o << OpenOl >>)
      ELSE IF ~HeadingForm(text) /\ AllBlank(Inline(text))
      THEN close \o << ParaLine >>
      ELSE close \o << Iterate(process_markdown_line(text))[1] >>

\* The block open after such a line.
OpenNext(text, open) ==
  IF IsDash(text) THEN TagUl ELSE IF IsStar(text) THEN TagOl ELSE None

\* The output and the open block after the first n lines of the input,
\* computed from these lines alone.
RECURSIVE Replay(_)
Replay(n) ==
  IF n = 0 THEN [ out |-> << >>, open |-> None ]
  ELSE LET before == Replay(n - 1)
       IN  [ out  |-> before.out \o Appended(LineAt(n), before.open),
             open |-> OpenNext(LineAt(n), before.open) ]

\* C18: a step of the loop only appends to the output; the output and
\* the open block after the lines processed so far are the ones computed
\* line by line from these lines alone, each line adding lines that
\* depend on its text and on the open block only; the output after every
\* shorter prefix of the input is a prefix of the output.
C18_AppendOnly ==
  /\ [][ pc = "loop" => IsPrefix(html_lines, html_lines') ]_vars
  /\ [](pc = "loop" =>
          /\ html_lines = Replay(idx - 1).out
          /\ list_type = Replay(idx - 1).open
          /\ \A k \in 0..(idx - 1) : IsPrefix(Replay(k).out, html_lines))

\* C18 witness: three lines were processed, each adding lines to the
\* output of the lines before it.
C18_Witness ==
  /\ pc = "loop"
  /\ idx = 4
  /\ html_lines =
       << OpenUl, CloseTag(TagUl), OpenOl, CloseTag(TagOl), ParaLine >>

\* C19: the output file changes in one step only, the one that writes
\* the joined output once all lines are processed and the open list is
\* closed; until then, and in every run that ends with status 1, it is
\* what it was at the start.
C19_WriteLast ==
  /\ [][ pc # "write" => out_file' = out_file ]_vars
  /\ [][ pc = "write"
           => /\ idx > Len(lines)
              /\ OpenAfter(html_lines, Len(html_lines)) = None
              /\ out_file' = Join(html_lines)
              /\ html_lines' = html_lines ]_vars
  /\ []((pc \notin { "written", "exit" } \/ exit_code = 1)
          => out_file \in { NoFile, OldContent })

\* C19 witness: a run failed on its second line with output already
\* accumulated, and the old output file is still there.
C19_Witness ==
  /\ pc = "exit"
  /\ Raised
  /\ idx = 2
  /\ html_lines = << OpenUl >>
  /\ out_file = OldContent
=============================================================================
